---- MODULE Spec2Model ----
(***************************************************************************)
(* The Prior/Constraint engine of dsr (dsr/prior.py): the masking          *)
(* primitive, the rules, JointPrior and the make_prior factory.            *)
(*                                                                         *)
(* Logit values are modelled as extended numbers: a finite value is an     *)
(* exact integer count of thousandths, next to -inf, +inf and NaN with     *)
(* the IEEE rules for their sums and products.  float32 rounding of        *)
(* finite values is not modelled.                                          *)
(***************************************************************************)
EXTENDS Integers, Sequences, FiniteSets, TLC

VARIABLES
    call,       \* the last operation applied and its arguments
    ret,        \* the array the last operation returned
    raised,     \* the exception that left the last operation, or "none"
    priors,     \* JointPrior.priors: the list of rule instances
    config,     \* the configuration mapping handed to make_prior, or the
                \* arguments of checkConstraint
    warnings,   \* make_prior's diagnostics of its last run
    events      \* make_prior's constructor and validate() calls, in order

vars == <<call, ret, raised, priors, config, warnings, events>>

----------------------------------------------------------------------------
(* Bounds of the model *)

MaxBatch == 2
MaxTokens == 2
MaxMin == 5
MaxMax == 7
MaxLen == 4
MaxDangling == 4
MaxCells == 3
MaxPriors == 2
MaxEntries == 3
MaxSeqLen == 4
MaxRepeat == 2
MaxIndLen == 3
MaxHeight == 2
MaxInds == 2

----------------------------------------------------------------------------
(* Extended numbers *)

Fin(n) == [inf |-> 0, v |-> n]
NegInf == [inf |-> -1, v |-> 0]
PosInf == [inf |-> 1, v |-> 0]
NaN == [inf |-> 2, v |-> 0]
Zero == Fin(0)

\* x + y on float values
Add(x, y) ==
    IF x.inf = 2 \/ y.inf = 2 THEN NaN
    ELSE IF x.inf = 0 /\ y.inf = 0 THEN Fin(x.v + y.v)
    ELSE IF x.inf = 0 THEN y
    ELSE IF y.inf = 0 THEN x
    ELSE IF x.inf = y.inf THEN x
    ELSE NaN

\* x * w on float values, w a finite number
Mul(x, w) ==
    IF x.inf = 2 THEN NaN
    ELSE IF x.inf = 0 THEN Fin(x.v * w)
    ELSE IF w = 0 THEN NaN
    ELSE IF w > 0 THEN x
    ELSE IF x.inf = 1 THEN NegInf ELSE PosInf

----------------------------------------------------------------------------
(* The Library: token ids 0..L-1 and the index sets the rules read *)

L == 6
TokenIds == 0 .. (L - 1)
\* 0 add, 1 sin, 2 exp, 3 log, 4 x1, 5 const
arities == [t \in TokenIds |-> IF t = 0 THEN 2 ELSE IF t \in {1, 2, 3} THEN 1 ELSE 0]
binary_tokens == <<0>>
unary_tokens == <<1, 2, 3>>
terminal_tokens == <<4, 5>>
trig_tokens == <<1>>
input_tokens == <<4>>
float_tokens == <<5>>
const_token == <<5>>
\* the index of a token among the non-terminal tokens, -1 for a terminal
parent_adjust == [t \in TokenIds |-> IF arities[t] > 0 THEN t ELSE -1]
\* the markers of "no parent" and "no sibling" in the sampler's signals
empty_parent == 4
empty_sibling == L
\* Library.inverse_tokens.items(): exp -> log, log -> exp
inverse_tokens == <<<<2, 3>>, <<3, 2>>>>
\* Library.tokens_of_arity.items()
tokens_of_arity == <<terminal_tokens, unary_tokens, binary_tokens>>

----------------------------------------------------------------------------
(* Arrays: a (batch, L) array is a sequence of rows, a row maps 0..L-1 *)

\* np.zeros((L,))
zeros_row == [c \in TokenIds |-> Zero]
\* np.zeros((n, L))
zeros(n) == [r \in 1 .. n |-> zeros_row]

\* a + b for arrays of one shape
AddRows(a, b) == [c \in TokenIds |-> Add(a[c], b[c])]
AddArrays(a, b) == [r \in 1 .. Len(a) |-> AddRows(a[r], b[r])]

----------------------------------------------------------------------------
(* Constraint.make_constraint *)

\* prior[mask, t] = -np.inf
SetMasked(prior, mask, t) ==
    [r \in 1 .. Len(prior) |->
        IF mask[r] THEN [prior[r] EXCEPT ![t] = NegInf] ELSE prior[r]]

RECURSIVE make_constraint_loop(_, _, _, _)
make_constraint_loop(prior, mask, tokens, k) ==
    IF k > Len(tokens) THEN prior
    ELSE make_constraint_loop(SetMasked(prior, mask, tokens[k]), mask, tokens, k + 1)

\* a plausible slip: the mask is ignored and every row is constrained
make_constraint_allrows(mask, tokens) ==
    make_constraint_loop(zeros(Len(mask)), [r \in 1 .. Len(mask) |-> TRUE], tokens, 1)

\* a plausible slip: the sign of the infinity is lost
make_constraint_posinf(mask, tokens) ==
    LET prior == make_constraint_loop(zeros(Len(mask)), mask, tokens, 1)
    IN [r \in 1 .. Len(prior) |->
           [c \in TokenIds |-> IF prior[r][c] = NegInf THEN PosInf ELSE Zero]]

make_constraint(mask, tokens) ==
    make_constraint_loop(zeros(Len(mask)), mask, tokens, 1)

----------------------------------------------------------------------------
(* Prior: the base class *)

\* None, and a value that is set
None == <<>>
Some(n) == <<n>>
Val(x) == x[1]

\* actions.shape[0] and actions.shape[1] of a batch of at least one row
batch_size(actions) == Len(actions)
seq_length(actions) == Len(actions[1])

\* Prior.init_zeros
init_zeros(actions) == zeros(batch_size(actions))

\* Prior.initial_prior
Prior_initial_prior == zeros_row

\* for t in tokens: prior[t] = -np.inf
RECURSIVE SetTokens(_, _, _)
SetTokens(prior, tokens, k) ==
    IF k > Len(tokens) THEN prior
    ELSE SetTokens([prior EXCEPT ![tokens[k]] = NegInf], tokens, k + 1)

----------------------------------------------------------------------------
(* LengthConstraint *)

LengthConstraint(min_, max_) == [type |-> "length", min |-> min_, max |-> max_]

\* a plausible slip: terminals are masked only when a minimum is configured
LengthConstraint_initial_prior_minonly(self) ==
    IF self.min # None /\ Val(self.min) > 1
    THEN SetTokens(Prior_initial_prior, terminal_tokens, 1)
    ELSE Prior_initial_prior

LengthConstraint_initial_prior(self) ==
    SetTokens(Prior_initial_prior, terminal_tokens, 1)

\* a plausible slip: the token about to be chosen is counted twice
LengthConstraint_max_offbyone(self, prior, i, dangling) ==
    IF self.max # None /\ (i + 2) >= Val(self.max) \div 2
    THEN LET remaining == Val(self.max) - (i + 1) - 1
             binary == make_constraint(
                 [r \in 1 .. Len(dangling) |-> dangling[r] >= remaining - 1],
                 binary_tokens)
             unary == make_constraint(
                 [r \in 1 .. Len(dangling) |-> dangling[r] = remaining],
                 unary_tokens)
         IN AddArrays(AddArrays(prior, binary), unary)
    ELSE prior

\* a plausible slip: unary tokens are masked on the condition of the binary
\* tokens
LengthConstraint_max_unary(self, prior, i, dangling) ==
    IF self.max # None /\ (i + 2) >= Val(self.max) \div 2
    THEN LET remaining == Val(self.max) - (i + 1)
             mask == [r \in 1 .. Len(dangling) |-> dangling[r] >= remaining - 1]
         IN AddArrays(AddArrays(prior, make_constraint(mask, binary_tokens)),
                      make_constraint(mask, unary_tokens))
    ELSE prior

\* the max branch of __call__
LengthConstraint_max(self, prior, i, dangling) ==
    IF self.max # None /\ (i + 2) >= Val(self.max) \div 2
    THEN LET remaining == Val(self.max) - (i + 1)
             binary == make_constraint(
                 [r \in 1 .. Len(dangling) |-> dangling[r] >= remaining - 1],
                 binary_tokens)
             unary == make_constraint(
                 [r \in 1 .. Len(dangling) |-> dangling[r] = remaining],
                 unary_tokens)
         IN AddArrays(AddArrays(prior, binary), unary)
    ELSE prior

\* a plausible slip: <= for <
LengthConstraint_min_le(self, prior, i, dangling) ==
    IF self.min # None /\ (i + 2) <= Val(self.min)
    THEN AddArrays(prior, make_constraint(
             [r \in 1 .. Len(dangling) |-> dangling[r] = 1], terminal_tokens))
    ELSE prior

\* a plausible slip: the minimum is enforced one token short
LengthConstraint_min_short(self, prior, i, dangling) ==
    IF self.min # None /\ (i + 3) < Val(self.min)
    THEN AddArrays(prior, make_constraint(
             [r \in 1 .. Len(dangling) |-> dangling[r] = 1], terminal_tokens))
    ELSE prior

\* the min branch of __call__
LengthConstraint_min(self, prior, i, dangling) ==
    IF self.min # None /\ (i + 2) < Val(self.min)
    THEN AddArrays(prior, make_constraint(
             [r \in 1 .. Len(dangling) |-> dangling[r] = 1], terminal_tokens))
    ELSE prior

LengthConstraint_call(self, actions, parent, sibling, dangling) ==
    LET i == seq_length(actions) - 1
    IN LengthConstraint_min(self,
           LengthConstraint_max(self, init_zeros(actions), i, dangling),
           i, dangling)

----------------------------------------------------------------------------
(* numpy helpers *)

\* x in the array xs
IsIn(x, xs) == \E k \in 1 .. Len(xs) : xs[k] = x
\* np.isin(v, xs) for a vector v
isin(v, xs) == [r \in 1 .. Len(v) |-> IsIn(v[r], xs)]
\* table[xs]
Lookup(table, xs) == [k \in 1 .. Len(xs) |-> table[xs[k]]]
\* the sorted unique elements of a set of integers, as an array
RECURSIVE SortedSeq(_)
SortedSeq(S) ==
    IF S = {} THEN <<>>
    ELSE LET m == CHOOSE x \in S : \A y \in S : x <= y
         IN <<m>> \o SortedSeq(S \ {m})
Range(xs) == {xs[k] : k \in 1 .. Len(xs)}
\* np.intersect1d(xs, ys)
intersect1d(xs, ys) == SortedSeq(Range(xs) \cap Range(ys))
\* np.sum(np.isin(actions, tokens), axis=1) for one row
RECURSIVE CountIn(_, _)
CountIn(row, tokens) ==
    IF row = <<>> THEN 0
    ELSE (IF IsIn(Head(row), tokens) THEN 1 ELSE 0) + CountIn(Tail(row), tokens)
\* mask.nonzero()
RECURSIVE nonzero(_, _)
nonzero(mask, r) ==
    IF r > Len(mask) THEN <<>>
    ELSE (IF mask[r] THEN <<r>> ELSE <<>>) \o nonzero(mask, r + 1)

----------------------------------------------------------------------------
(* dsr.subroutines.ancestors: whether the node about to be generated has one
   of ancestor_tokens among its ancestors *)

\* the open nodes after a row of actions, root first: <<token, open slots>>
RECURSIVE CloseSlot(_)
CloseSlot(stack) ==
    IF stack = <<>> THEN <<>>
    ELSE LET top == stack[Len(stack)]
             rest == SubSeq(stack, 1, Len(stack) - 1)
         IN IF top[2] > 1 THEN rest \o <<(<<top[1], top[2] - 1>>)>>
            ELSE CloseSlot(rest)

RECURSIVE OpenNodes(_, _, _)
OpenNodes(row, k, stack) ==
    IF k > Len(row) THEN stack
    ELSE IF arities[row[k]] > 0
         THEN OpenNodes(row, k + 1, stack \o <<(<<row[k], arities[row[k]]>>)>>)
         ELSE OpenNodes(row, k + 1, CloseSlot(stack))

ancestors(actions, ancestor_tokens) ==
    [r \in 1 .. Len(actions) |->
        LET stack == OpenNodes(actions[r], 1, <<>>)
        IN \E k \in 1 .. Len(stack) : IsIn(stack[k][1], ancestor_tokens)]

----------------------------------------------------------------------------
(* RelationalConstraint and its specialisations *)

RelationalConstraint(targets, effectors, relationship) ==
    [type |-> "relational", targets |-> targets, effectors |-> effectors,
     relationship |-> relationship]

\* a plausible slip: only the parent is looked at, not every ancestor
TrigConstraint_child ==
    [RelationalConstraint(trig_tokens, trig_tokens, "child")
        EXCEPT !.type = "trig"]

TrigConstraint ==
    [RelationalConstraint(trig_tokens, trig_tokens, "descendant")
        EXCEPT !.type = "trig"]

ConstConstraint ==
    [RelationalConstraint(const_token, unary_tokens \o binary_tokens, "uchild")
        EXCEPT !.type = "const"]

\* the mask of the uchild relationship
uchild_mask(self, parent, sibling) ==
    LET unary_effectors == intersect1d(self.effectors, unary_tokens)
        adj_unary_effectors == Lookup(parent_adjust, unary_effectors)
        case1 == isin(parent, adj_unary_effectors)
        adj_effectors == Lookup(parent_adjust, self.effectors)
        sib == isin(sibling, self.targets)
        par == isin(parent, adj_effectors)
    IN [r \in 1 .. Len(parent) |-> case1[r] \/ (sib[r] /\ par[r])]

\* prior[mask, t] = -np.inf for an array t: the masked rows and t index
\* together, which numpy allows when their lengths agree or one of them is 1
CanBroadcast(k, n) == k = n \/ k = 1 \/ n = 1

SetMaskedArray(prior, mask, t) ==
    LET rows == nonzero(mask, 1)
        k == Len(rows)
        n == Len(t)
        m == IF k = 1 THEN n ELSE k
        hit == {<<rows[IF k = 1 THEN 1 ELSE j], t[IF n = 1 THEN 1 ELSE j]>> :
                    j \in 1 .. m}
    IN [r \in 1 .. Len(prior) |->
           [c \in TokenIds |-> IF <<r, c>> \in hit THEN NegInf ELSE prior[r][c]]]

\* make_constraint(mask, [targets]): one pass of the loop, t the whole array
make_constraint_array(mask, targets) ==
    SetMaskedArray(zeros(Len(mask)), mask, targets)

RelationalConstraint_raises(self, actions, parent, sibling, dangling) ==
    IF self.relationship = "uchild"
       /\ ~CanBroadcast(Len(nonzero(uchild_mask(self, parent, sibling), 1)),
                        Len(self.targets))
    THEN "IndexError" ELSE "none"

RelationalConstraint_call(self, actions, parent, sibling, dangling) ==
    CASE self.relationship = "descendant" ->
            make_constraint(ancestors(actions, self.effectors), self.targets)
      [] self.relationship = "child" ->
            make_constraint(
                isin(parent, Lookup(parent_adjust, self.effectors)),
                self.targets)
      [] self.relationship = "sibling" ->
            AddArrays(
                make_constraint(isin(sibling, self.effectors), self.targets),
                make_constraint(isin(sibling, self.targets), self.effectors))
      [] self.relationship = "uchild" ->
            make_constraint_array(uchild_mask(self, parent, sibling), self.targets)

----------------------------------------------------------------------------
(* NoInputsConstraint *)

NoInputsConstraint == [type |-> "no_inputs"]

NoInputsConstraint_call(self, actions, parent, sibling, dangling) ==
    make_constraint(
        [r \in 1 .. Len(actions) |->
            dangling[r] = 1 /\ CountIn(actions[r], input_tokens) = 0],
        float_tokens)

----------------------------------------------------------------------------
(* InverseUnaryConstraint *)

\* a plausible slip: only the first pair of the registry gets a rule
InverseUnaryConstraint_firstonly ==
    [type |-> "inverse",
     priors |-> <<RelationalConstraint(<<inverse_tokens[1][1]>>,
                                       <<inverse_tokens[1][2]>>, "child")>>]

InverseUnaryConstraint ==
    [type |-> "inverse",
     priors |-> [k \in 1 .. Len(inverse_tokens) |->
                    RelationalConstraint(<<inverse_tokens[k][1]>>,
                                         <<inverse_tokens[k][2]>>, "child")]]

\* sum([...]) of arrays: 0 + a1 + a2 + ...
RECURSIVE SumArrays(_, _, _)
SumArrays(acc, arrays, k) ==
    IF k > Len(arrays) THEN acc
    ELSE SumArrays(AddArrays(acc, arrays[k]), arrays, k + 1)

InverseUnaryConstraint_call(self, actions, parent, sibling, dangling) ==
    SumArrays(zeros(Len(actions)),
              [k \in 1 .. Len(self.priors) |->
                  RelationalConstraint_call(self.priors[k], actions, parent,
                                            sibling, dangling)],
              1)

----------------------------------------------------------------------------
(* RepeatConstraint *)

RepeatConstraint(tokens, min_, max_) ==
    [type |-> "repeat", tokens |-> tokens, min |-> min_, max |-> max_]

RepeatConstraint_raises(self, actions, parent, sibling, dangling) ==
    IF self.min # None THEN "NotImplementedError" ELSE "none"

RepeatConstraint_call(self, actions, parent, sibling, dangling) ==
    LET counts == [r \in 1 .. Len(actions) |-> CountIn(actions[r], self.tokens)]
        prior == init_zeros(actions)
    IN IF self.max # None
       THEN AddArrays(prior, make_constraint(
                [r \in 1 .. Len(actions) |-> counts[r] >= Val(self.max)],
                self.tokens))
       ELSE prior

----------------------------------------------------------------------------
(* UniformArityPrior *)

\* np.log(n) in thousandths, for the counts and factors of the model
Log1000(n) ==
    CASE n = 1 -> 0
      [] n = 2 -> 693
      [] n = 3 -> 1099
      [] n = 4 -> 1386
      [] n = 5 -> 1609
      [] n = 6 -> 1792
      [] n = 7 -> 1946
      [] OTHER -> 2079

\* self.logit_adjust[tokens] -= np.log(len(tokens)), one arity after another
RECURSIVE SubLog(_, _, _)
SubLog(adjust, tokens, k) ==
    IF k > Len(tokens) THEN adjust
    ELSE SubLog([adjust EXCEPT ![tokens[k]] = Add(@, Fin(-Log1000(Len(tokens))))],
                tokens, k + 1)

RECURSIVE logit_adjust_loop(_, _)
logit_adjust_loop(adjust, k) ==
    IF k > Len(tokens_of_arity) THEN adjust
    ELSE logit_adjust_loop(SubLog(adjust, tokens_of_arity[k], 1), k + 1)

UniformArityPrior ==
    [type |-> "uniform_arity", logit_adjust |-> logit_adjust_loop(zeros_row, 1)]

UniformArityPrior_initial_prior(self) == self.logit_adjust

\* the (L,) vector, which JointPrior broadcasts over the batch
UniformArityPrior_call(self, actions, parent, sibling, dangling) ==
    [r \in 1 .. Len(actions) |-> self.logit_adjust]

----------------------------------------------------------------------------
(* SoftLengthPrior *)

SoftLengthPrior(loc, scale) ==
    [type |-> "soft_length", loc |-> loc, scale |-> scale,
     terminal_mask |-> [c \in TokenIds |-> IsIn(c, terminal_tokens)],
     nonterminal_mask |-> [c \in TokenIds |-> ~IsIn(c, terminal_tokens)]]

\* -(t - loc) ** 2 / (2 * scale), in thousandths, scale # 0
soft_logit_adjust(t, loc, scale) ==
    LET num == (t - loc) * (t - loc) * 1000
        den == 2 * scale
    IN IF den > 0 THEN -(num \div den) ELSE num \div (-den)

\* mask * x for a boolean mask and a finite x
MaskTimes(mask, x) == [c \in TokenIds |-> IF mask[c] THEN Fin(x) ELSE Zero]

SoftLengthPrior_raises(self, actions, parent, sibling, dangling) ==
    IF self.scale = 0 THEN "ZeroDivisionError" ELSE "none"

SoftLengthPrior_call(self, actions, parent, sibling, dangling) ==
    LET prior == init_zeros(actions)
        t == seq_length(actions)
        logit_adjust == soft_logit_adjust(t, self.loc, self.scale)
    IN IF t < self.loc
       THEN [r \in 1 .. Len(prior) |->
               IF dangling[r] = 1
               THEN AddRows(prior[r], MaskTimes(self.terminal_mask, logit_adjust))
               ELSE prior[r]]
       ELSE [r \in 1 .. Len(prior) |->
               AddRows(prior[r], MaskTimes(self.nonterminal_mask, logit_adjust))]

----------------------------------------------------------------------------
(* BindingPrior and SequencePositionsConstraint *)

\* dsr.constants.AMINO_ACIDS: the symbols of the L columns
AMINO_ACIDS == <<"A", "C", "D", "E", "F", "G">>

\* AMINO_ACIDS.index(symbol)
aa_index(symbol) == (CHOOSE k \in 1 .. Len(AMINO_ACIDS) : AMINO_ACIDS[k] = symbol) - 1

\* self.allowed_mutations: <<position, allowed symbols>> in insertion order
HasPosition(allowed_mutations, pos) ==
    \E k \in 1 .. Len(allowed_mutations) : allowed_mutations[k][1] = pos
AllowedAt(allowed_mutations, pos) ==
    allowed_mutations[CHOOSE k \in 1 .. Len(allowed_mutations) :
                          allowed_mutations[k][1] = pos][2]

SequencePositionsConstraint(master_sequence, allowed_mutations, mode, biasing_factor) ==
    [type |-> "seq_positions", master_sequence |-> master_sequence,
     allowed_mutations |-> allowed_mutations, mode |-> mode,
     biasing_factor |-> biasing_factor]

\* prior[:, idx] = x
SetColumn(prior, idx, x) == [r \in 1 .. Len(prior) |-> [prior[r] EXCEPT ![idx] = x]]

\* prior[:, mask] = -np.inf with mask = np.isin(AMINO_ACIDS, allowed, invert=True)
MaskOutside(prior, allowed) ==
    [r \in 1 .. Len(prior) |->
        [c \in TokenIds |->
            IF ~IsIn(AMINO_ACIDS[c + 1], allowed) THEN NegInf ELSE prior[r][c]]]

\* the bias towards the master sequence
calculate_prior_bias(self, prior, seq_position) ==
    IF self.biasing_factor > 0
    THEN SetColumn(prior, aa_index(self.master_sequence[seq_position + 1]),
                   Fin(Log1000(self.biasing_factor)))
    ELSE prior

\* a plausible slip: in full mode a position without an entry is left free
calculate_prior_free(self, prior0, seq_position) ==
    IF seq_position >= Len(self.master_sequence) THEN prior0
    ELSE LET prior == calculate_prior_bias(self, prior0, seq_position)
         IN IF self.mode = "short"
            THEN IF seq_position >= Len(self.allowed_mutations) THEN prior
                 ELSE LET actual_seq_position ==
                              self.allowed_mutations[seq_position + 1][1]
                      IN MaskOutside(prior,
                             AllowedAt(self.allowed_mutations, actual_seq_position))
            ELSE IF HasPosition(self.allowed_mutations, seq_position)
                 THEN MaskOutside(prior,
                          AllowedAt(self.allowed_mutations, seq_position))
                 ELSE prior

calculate_prior(self, prior0, seq_position) ==
    IF seq_position >= Len(self.master_sequence) THEN prior0
    ELSE LET prior == calculate_prior_bias(self, prior0, seq_position)
         IN IF self.mode = "short"
            THEN IF seq_position >= Len(self.allowed_mutations) THEN prior
                 ELSE LET actual_seq_position ==
                              self.allowed_mutations[seq_position + 1][1]
                      IN MaskOutside(prior,
                             AllowedAt(self.allowed_mutations, actual_seq_position))
            ELSE IF HasPosition(self.allowed_mutations, seq_position)
                 THEN IF Len(AllowedAt(self.allowed_mutations, seq_position))
                            < Len(AMINO_ACIDS)
                      THEN MaskOutside(prior,
                               AllowedAt(self.allowed_mutations, seq_position))
                      ELSE prior
                 ELSE MaskOutside(prior, <<self.master_sequence[seq_position + 1]>>)

SequencePositionsConstraint_initial_prior(self) ==
    calculate_prior(self, zeros(1), 0)[1]

SequencePositionsConstraint_call(self, actions, parent, sibling, dangling) ==
    calculate_prior(self, init_zeros(actions), seq_length(actions))

----------------------------------------------------------------------------
(* LanguageModelPrior over the external scorer dsr.language_model *)

\* the scorer's state: None, or the number of tokens it has consumed
LanguageModelPrior(weight) ==
    [type |-> "language_model", weight |-> weight, next_state |-> None]

\* LM.get_lm_prior: finite logits that depend on the state and the action
get_lm_prior(next_state, action) ==
    LET n == IF next_state = None THEN 0 ELSE Val(next_state)
    IN [r \in 1 .. Len(action) |->
           [c \in TokenIds |-> Fin(-100 * (1 + ((n + action[r] + c) % 3)))]]
\* ... and the state it leaves
lm_advance(next_state) ==
    IF next_state = None THEN Some(1) ELSE Some(Val(next_state) + 1)

\* a plausible slip: the reset is tied to the wrong sequence length
lm_state_at_query_late(self, actions) ==
    IF seq_length(actions) = 2 THEN None ELSE self.next_state

\* the state the scorer is queried in
lm_state_at_query(self, actions) ==
    IF seq_length(actions) = 1 THEN None ELSE self.next_state

LanguageModelPrior_call(self, actions, parent, sibling, dangling) ==
    LET action == [r \in 1 .. Len(actions) |-> actions[r][Len(actions[r])]]
        prior == get_lm_prior(lm_state_at_query(self, actions), action)
    IN [r \in 1 .. Len(prior) |-> [c \in TokenIds |-> Mul(prior[r][c], self.weight)]]

\* the instance after the call
LanguageModelPrior_after(self, actions) ==
    [self EXCEPT !.next_state = lm_advance(lm_state_at_query(self, actions))]

----------------------------------------------------------------------------
(* JointPrior *)

\* prior.initial_prior() of a rule instance
prior_initial_prior(self) ==
    CASE self.type = "length" -> LengthConstraint_initial_prior(self)
      [] self.type = "uniform_arity" -> UniformArityPrior_initial_prior(self)
      [] self.type = "seq_positions" -> SequencePositionsConstraint_initial_prior(self)
      [] OTHER -> Prior_initial_prior

\* prior(actions, parent, sibling, dangling) of a rule instance
prior_call(self, actions, parent, sibling, dangling) ==
    CASE self.type \in {"relational", "trig", "const"} ->
            RelationalConstraint_call(self, actions, parent, sibling, dangling)
      [] self.type = "length" ->
            LengthConstraint_call(self, actions, parent, sibling, dangling)
      [] self.type = "repeat" ->
            RepeatConstraint_call(self, actions, parent, sibling, dangling)
      [] self.type = "inverse" ->
            InverseUnaryConstraint_call(self, actions, parent, sibling, dangling)
      [] self.type = "no_inputs" ->
            NoInputsConstraint_call(self, actions, parent, sibling, dangling)
      [] self.type = "soft_length" ->
            SoftLengthPrior_call(self, actions, parent, sibling, dangling)
      [] self.type = "uniform_arity" ->
            UniformArityPrior_call(self, actions, parent, sibling, dangling)
      [] self.type = "seq_positions" ->
            SequencePositionsConstraint_call(self, actions, parent, sibling, dangling)
      [] self.type = "language_model" ->
            LanguageModelPrior_call(self, actions, parent, sibling, dangling)

\* the exception the call of a rule instance raises, or "none"
prior_raises(self, actions, parent, sibling, dangling) ==
    CASE self.type \in {"relational", "trig", "const"} ->
            RelationalConstraint_raises(self, actions, parent, sibling, dangling)
      [] self.type = "repeat" ->
            RepeatConstraint_raises(self, actions, parent, sibling, dangling)
      [] self.type = "soft_length" ->
            SoftLengthPrior_raises(self, actions, parent, sibling, dangling)
      [] OTHER -> "none"

\* a plausible slip: the array a rule hands out is the one the sum is
\* accumulated into, so UniformArityPrior's offsets grow with every call
prior_after_alias(self, actions) ==
    IF self.type = "language_model" THEN LanguageModelPrior_after(self, actions)
    ELSE IF self.type = "uniform_arity"
    THEN [self EXCEPT !.logit_adjust = AddRows(@, @)]
    ELSE self

\* the rule instance after its call
prior_after(self, actions) ==
    IF self.type = "language_model" THEN LanguageModelPrior_after(self, actions)
    ELSE self

\* JointPrior.initial_prior
RECURSIVE initial_prior_loop(_, _, _)
initial_prior_loop(combined_prior, ps, k) ==
    IF k > Len(ps) THEN combined_prior
    ELSE initial_prior_loop(AddRows(combined_prior, prior_initial_prior(ps[k])),
                            ps, k + 1)

JointPrior_initial_prior(ps) == initial_prior_loop(zeros_row, ps, 1)

\* the index of the first rule whose call raises, 0 when none does
FirstRaising(ps, actions, parent, sibling, dangling) ==
    LET bad == {k \in 1 .. Len(ps) :
                   prior_raises(ps[k], actions, parent, sibling, dangling) # "none"}
    IN IF bad = {} THEN 0 ELSE CHOOSE k \in bad : \A j \in bad : k <= j

\* ind_priors after the loop of JointPrior.__call__
ind_priors(ps, actions, parent, sibling, dangling) ==
    LET zero_prior == zeros(batch_size(actions))
    IN [i \in 1 .. Len(ps) |->
           AddArrays(zero_prior, prior_call(ps[i], actions, parent, sibling, dangling))]

\* a plausible slip: the last rule of the list is left out of the sum
JointPrior_call_droplast(ps, actions, parent, sibling, dangling) ==
    LET zero_prior == zeros(batch_size(actions))
        ind == ind_priors(ps, actions, parent, sibling, dangling)
    IN AddArrays(SumArrays(zero_prior, SubSeq(ind, 1, Len(ind) - 1), 1), zero_prior)

\* JointPrior.__call__: sum(ind_priors) + zero_prior
JointPrior_call(ps, actions, parent, sibling, dangling) ==
    LET zero_prior == zeros(batch_size(actions))
    IN AddArrays(
           SumArrays(zero_prior,
                     ind_priors(ps, actions, parent, sibling, dangling), 1),
           zero_prior)

----------------------------------------------------------------------------
(* The signals the sampler derives from the actions of a sample *)

RECURSIVE SumArity(_)
SumArity(row) ==
    IF row = <<>> THEN 0 ELSE (arities[Head(row)] - 1) + SumArity(Tail(row))

\* the number of open argument slots after the row
dangling_of(row) == 1 + SumArity(row)

\* <<parent, sibling>> of the node that follows the row; c counts back from
\* the end of the row and d is the balance of the tokens passed
RECURSIVE WalkBack(_, _, _)
WalkBack(row, c, d) ==
    IF c >= Len(row) THEN <<empty_parent, empty_sibling>>
    ELSE LET tok == row[Len(row) - c]
             d2 == d + arities[tok] - 1
         IN IF d2 = 0
            THEN <<parent_adjust[tok], row[Len(row) - c + 1]>>
            ELSE WalkBack(row, c + 1, d2)

parent_sibling_of(row) ==
    IF arities[row[Len(row)]] > 0
    THEN <<parent_adjust[row[Len(row)]], empty_sibling>>
    ELSE WalkBack(row, 0, 0)

parent_of(actions) == [r \in 1 .. Len(actions) |-> parent_sibling_of(actions[r])[1]]
sibling_of(actions) == [r \in 1 .. Len(actions) |-> parent_sibling_of(actions[r])[2]]
danglings_of(actions) == [r \in 1 .. Len(actions) |-> dangling_of(actions[r])]

----------------------------------------------------------------------------
(* make_prior: the factory *)

\* Library.names, and Library.actionize: the ids of a list of token names
names == <<"add", "sin", "exp", "log", "x1", "const">>
KnownName(n) == \E k \in 1 .. Len(names) : names[k] = n
actionize_raises(tokens) == \E k \in 1 .. Len(tokens) : ~KnownName(tokens[k])
actionize(tokens) ==
    [k \in 1 .. Len(tokens) |->
        (CHOOSE i \in 1 .. Len(names) : names[i] = tokens[k]) - 1]

\* prior_dict: the class of a rule name
prior_dict(prior_type) ==
    CASE prior_type = "relational" -> "RelationalConstraint"
      [] prior_type = "length" -> "LengthConstraint"
      [] prior_type = "repeat" -> "RepeatConstraint"
      [] prior_type = "inverse" -> "InverseUnaryConstraint"
      [] prior_type = "trig" -> "TrigConstraint"
      [] prior_type = "const" -> "ConstConstraint"
      [] prior_type = "no_inputs" -> "NoInputsConstraint"
      [] prior_type = "soft_length" -> "SoftLengthPrior"
      [] prior_type = "uniform_arity" -> "UniformArityPrior"
      [] prior_type = "seq_positions" -> "SequencePositionsConstraint"
      [] prior_type = "language_model" -> "LanguageModelPrior"

\* the menu files that exist, with their content
MenuFiles == <<"menu.yaml">>
menu_master_sequence == <<"A", "C", "D">>
menu_allowed_mutations == <<(<<1, <<"C", "D">>>>)>>

\* a plausible slip: the assertion on min_ at the end of
\* RepeatConstraint.__init__ is missing
construct_raises_nominassert(prior_type, args) ==
    CASE prior_type = "relational" ->
            IF actionize_raises(args.targets) \/ actionize_raises(args.effectors)
            THEN "TokenNotFoundError" ELSE "none"
      [] prior_type = "repeat" ->
            IF args.min = None /\ args.max = None THEN "AssertionError"
            ELSE IF actionize_raises(args.tokens) THEN "TokenNotFoundError"
            ELSE "none"
      [] prior_type = "length" ->
            IF args.min = None /\ args.max = None THEN "AssertionError" ELSE "none"
      [] prior_type = "seq_positions" ->
            IF ~IsIn(args.menu_file, MenuFiles) THEN "AttributeError"
            ELSE IF args.mode \notin {"full", "short"} THEN "AssertionError"
            ELSE "none"
      [] OTHER -> "none"

\* prior_class(library, **single_prior_args): the exception the constructor
\* raises, or "none"
construct_raises(prior_type, args) ==
    CASE prior_type = "relational" ->
            IF actionize_raises(args.targets) \/ actionize_raises(args.effectors)
            THEN "TokenNotFoundError" ELSE "none"
      [] prior_type = "repeat" ->
            IF args.min = None /\ args.max = None THEN "AssertionError"
            ELSE IF actionize_raises(args.tokens) THEN "TokenNotFoundError"
            ELSE IF args.min # None THEN "AssertionError"
            ELSE "none"
      [] prior_type = "length" ->
            IF args.min = None /\ args.max = None THEN "AssertionError" ELSE "none"
      [] prior_type = "seq_positions" ->
            IF ~IsIn(args.menu_file, MenuFiles) THEN "AttributeError"
            ELSE IF args.mode \notin {"full", "short"} THEN "AssertionError"
            ELSE "none"
      [] OTHER -> "none"

\* ... and the instance it builds
construct(prior_type, args) ==
    CASE prior_type = "relational" ->
            RelationalConstraint(actionize(args.targets), actionize(args.effectors),
                                 args.relationship)
      [] prior_type = "length" -> LengthConstraint(args.min, args.max)
      [] prior_type = "repeat" ->
            RepeatConstraint(actionize(args.tokens), args.min, args.max)
      [] prior_type = "inverse" -> InverseUnaryConstraint
      [] prior_type = "trig" -> TrigConstraint
      [] prior_type = "const" -> ConstConstraint
      [] prior_type = "no_inputs" -> NoInputsConstraint
      [] prior_type = "soft_length" -> SoftLengthPrior(args.loc, args.scale)
      [] prior_type = "uniform_arity" -> UniformArityPrior
      [] prior_type = "seq_positions" ->
            SequencePositionsConstraint(menu_master_sequence, menu_allowed_mutations,
                                        args.mode, args.biasing_factor)
      [] prior_type = "language_model" -> LanguageModelPrior(args.weight)

\* a plausible slip: terminal effectors are refused under every relationship
validate_anyrelationship(self) ==
    IF self.type \in {"relational", "trig", "const"}
    THEN IF \E k \in 1 .. Len(self.effectors) :
                IsIn(self.effectors[k], terminal_tokens)
         THEN <<self.relationship, "relationship cannot have terminal effectors.">>
         ELSE IF Len(self.targets) = 0 THEN <<"There are no target Tokens.">>
         ELSE IF Len(self.effectors) = 0 THEN <<"There are no effector Tokens.">>
         ELSE None
    ELSE None

\* prior.validate(): the message (the parts it is formatted from), or None
validate(self) ==
    CASE self.type \in {"relational", "trig", "const"} ->
            IF self.relationship \in {"child", "descendant", "uchild"}
               /\ \E k \in 1 .. Len(self.effectors) :
                      IsIn(self.effectors[k], terminal_tokens)
            THEN <<self.relationship, "relationship cannot have terminal effectors.">>
            ELSE IF Len(self.targets) = 0 THEN <<"There are no target Tokens.">>
            ELSE IF Len(self.effectors) = 0 THEN <<"There are no effector Tokens.">>
            ELSE None
      [] self.type = "no_inputs" ->
            IF Len(float_tokens) = 0
            THEN <<"All terminal tokens are input variables">>
            ELSE None
      [] self.type = "inverse" ->
            IF Len(self.priors) = 0
            THEN <<"There are no inverse unary Token pairs in the Library.">>
            ELSE None
      [] self.type = "soft_length" ->
            IF self.loc = None \/ self.scale = None
            THEN <<"'scale' and 'loc' arguments must be specified!">>
            ELSE None
      [] self.type = "language_model" ->
            IF self.weight = None
            THEN <<"Need to specify language model arguments.">>
            ELSE None
      [] OTHER -> None

\* prior.describe(): the class and what the message is formatted from
describe_prior(self) ==
    CASE self.type \in {"relational", "trig", "const"} ->
            <<prior_dict(self.type), self.targets, self.relationship, self.effectors>>
      [] self.type = "no_inputs" ->
            <<"NoInputsConstraint", "Sequences contain at least one input variable Token.">>
      [] self.type = "inverse" ->
            <<"InverseUnaryConstraint",
              [k \in 1 .. Len(self.priors) |->
                  <<self.priors[k].targets, "child", self.priors[k].effectors>>]>>
      [] self.type = "repeat" -> <<"RepeatConstraint", self.tokens, self.min, self.max>>
      [] self.type = "length" -> <<"LengthConstraint", self.min, self.max>>
      [] self.type = "uniform_arity" -> <<"UniformArityPrior", "Activated.">>
      [] self.type = "seq_positions" ->
            <<"Sequence positions constraint", self.mode>>
      [] OTHER -> <<prior_dict(self.type), "No description available.">>

\* JointPrior.describe
describe(ps) == [k \in 1 .. Len(ps) |-> describe_prior(ps[k])]

\* the (rule, instance) positions of a configuration, in iteration order
RECURSIVE Positions(_, _, _)
Positions(cfg, i, j) ==
    IF i > Len(cfg) THEN <<>>
    ELSE IF j > Len(cfg[i].entries) THEN Positions(cfg, i + 1, 1)
    ELSE <<(<<i, j>>)>> \o Positions(cfg, i, j + 1)

\* single_prior_args.pop('on', False): the value, and the mapping it leaves
pop_on(d) == d.on = "true"
popped(d) == [d EXCEPT !.on = "absent"]

\* the body of the inner loop for the instance at position pos
make_prior_entry(acc, pos) ==
    LET i == pos[1]
        j == pos[2]
        prior_type == acc.config[i].name
        d == acc.config[i].entries[j]
        cfg2 == [acc.config EXCEPT ![i].entries[j] = popped(d)]
        exc == construct_raises(prior_type, d.args)
        prior == construct(prior_type, d.args)
        built == <<(<<"init", i, j>>)>>
        checked == <<(<<"validate", i, j>>)>>
        diagnostic(reason) ==
            [cls |-> prior_dict(prior_type), args |-> d.args, reason |-> reason]
    IN IF ~pop_on(d)
       THEN [acc EXCEPT !.config = cfg2,
                        !.warnings = Append(@, diagnostic(<<"Prior disabled.">>))]
       ELSE IF exc = "TokenNotFoundError"
       THEN [acc EXCEPT !.config = cfg2,
                        !.events = @ \o built,
                        !.warnings = Append(@,
                            diagnostic(<<"Uses Tokens not in the Library.">>))]
       ELSE IF exc # "none"
       THEN [acc EXCEPT !.config = cfg2, !.events = @ \o built, !.raised = exc]
       ELSE IF validate(prior) # None
       THEN [acc EXCEPT !.config = cfg2,
                        !.events = @ \o built \o checked,
                        !.warnings = Append(@, diagnostic(validate(prior)))]
       ELSE [acc EXCEPT !.config = cfg2,
                        !.events = @ \o built \o checked,
                        !.priors = Append(@, prior)]

\* a plausible slip: the loop stops at the first instance that is not added
RECURSIVE make_prior_loop_stop(_, _, _)
make_prior_loop_stop(acc, positions, k) ==
    IF k > Len(positions) \/ acc.raised # "none" \/ acc.warnings # <<>> THEN acc
    ELSE make_prior_loop_stop(make_prior_entry(acc, positions[k]), positions, k + 1)

\* the loops of make_prior, left when an exception propagates
RECURSIVE make_prior_loop(_, _, _)
make_prior_loop(acc, positions, k) ==
    IF k > Len(positions) \/ acc.raised # "none" THEN acc
    ELSE make_prior_loop(make_prior_entry(acc, positions[k]), positions, k + 1)

\* a plausible slip: a missing `on` counts as enabled
make_prior_default_on(config_prior) ==
    LET on_default(d) == IF d.on = "absent" THEN [d EXCEPT !.on = "true"] ELSE d
        cfg == [i \in 1 .. Len(config_prior) |->
                   [config_prior[i] EXCEPT !.entries =
                       [j \in 1 .. Len(config_prior[i].entries) |->
                           on_default(config_prior[i].entries[j])]]]
    IN make_prior_loop(
           [config |-> cfg, priors |-> <<>>, warnings |-> <<>>,
            events |-> <<>>, raised |-> "none"],
           Positions(cfg, 1, 1), 1)

make_prior(config_prior) ==
    make_prior_loop(
        [config |-> config_prior, priors |-> <<>>, warnings |-> <<>>,
         events |-> <<>>, raised |-> "none"],
        Positions(config_prior, 1, 1), 1)

----------------------------------------------------------------------------
(* Inputs *)

SeqsUpTo(S, n) == UNION {[1 .. k -> S] : k \in 0 .. n}
Masks == SeqsUpTo(BOOLEAN, MaxBatch)
TokenLists == SeqsUpTo(TokenIds, MaxTokens)

----------------------------------------------------------------------------
(* State machine of the masking primitive *)

NoCall == [op |-> "none"]

InitMask ==
    /\ call = NoCall
    /\ ret = <<>>
    /\ raised = "none"
    /\ priors = <<>>
    /\ config = <<>>
    /\ warnings = <<>>
    /\ events = <<>>

\* the caller takes the returned array: no call is in progress any more
Return ==
    /\ call # NoCall
    /\ call' = NoCall
    /\ ret' = <<>>
    /\ raised' = "none"
    /\ UNCHANGED <<priors, config, warnings, events>>

CallMakeConstraint ==
    \E mask \in Masks, tokens \in TokenLists :
        /\ call = NoCall
        /\ call' = [op |-> "make_constraint", mask |-> mask, tokens |-> tokens]
        /\ ret' = make_constraint(mask, tokens)
        /\ raised' = "none"
        /\ UNCHANGED <<priors, config, warnings, events>>

NextMask == CallMakeConstraint \/ Return

SpecMask == InitMask /\ [][NextMask]_vars

----------------------------------------------------------------------------
(* C1: make_constraint(mask, tokens) returns a (len(mask), L) array whose
   entry (r, c) is -inf exactly when mask[r] holds and c is among tokens,
   and 0.0 everywhere else. *)
InTokens(c, tokens) == \E k \in 1 .. Len(tokens) : tokens[k] = c

C1_MakeConstraint ==
    call.op = "make_constraint" =>
        /\ Len(ret) = Len(call.mask)
        /\ \A r \in 1 .. Len(ret) :
            /\ DOMAIN ret[r] = TokenIds
            /\ \A c \in TokenIds :
                ret[r][c] = IF call.mask[r] /\ InTokens(c, call.tokens)
                            THEN NegInf ELSE Zero

\* a call with a row inside the mask, a row outside it and two tokens
C1_Witness ==
    /\ call.op = "make_constraint"
    /\ Len(call.mask) = 2
    /\ call.mask[1] /\ ~call.mask[2]
    /\ Len(call.tokens) = 2
    /\ call.tokens[1] # call.tokens[2]

----------------------------------------------------------------------------
(* State machine of one LengthConstraint: any configuration, then calls of
   initial_prior and of __call__ on batches of any length and dangling
   counts.  The rule reads the shape of actions only, so the rows hold one
   token; parent and sibling are not read and hold the empty marker L. *)

Optional(S) == {None} \cup {Some(n) : n \in S}

LengthConfigs ==
    {LengthConstraint(mn, mx) :
        mn \in Optional(1 .. MaxMin), mx \in Optional(1 .. MaxMax)}
    \ {LengthConstraint(None, None)}

Filled(b, t, x) == [r \in 1 .. b |-> [k \in 1 .. t |-> x]]
Vector(b, x) == [r \in 1 .. b |-> x]

InitLength ==
    /\ call = NoCall
    /\ ret = <<>>
    /\ raised = "none"
    /\ priors \in {<<p>> : p \in LengthConfigs}
    /\ config = <<>>
    /\ warnings = <<>>
    /\ events = <<>>

LengthInitialPrior ==
    /\ call = NoCall
    /\ call' = [op |-> "initial_prior"]
    /\ ret' = LengthConstraint_initial_prior(priors[1])
    /\ raised' = "none"
    /\ UNCHANGED <<priors, config, warnings, events>>

LengthCall ==
    \E b \in 1 .. MaxBatch, t \in 1 .. MaxLen :
        \E dangling \in [1 .. b -> 0 .. MaxDangling] :
            LET actions == Filled(b, t, 0)
                parent == Vector(b, L)
                sibling == Vector(b, L)
            IN /\ call = NoCall
               /\ call' = [op |-> "call", actions |-> actions, parent |-> parent,
                           sibling |-> sibling, dangling |-> dangling]
               /\ ret' = LengthConstraint_call(priors[1], actions, parent,
                                               sibling, dangling)
               /\ raised' = "none"
               /\ UNCHANGED <<priors, config, warnings, events>>

NextLength == LengthInitialPrior \/ LengthCall \/ Return

SpecLength == InitLength /\ [][NextLength]_vars

\* the entries of row r at the columns of tokens are all x
AllAt(row, tokens, x) == \A k \in 1 .. Len(tokens) : row[tokens[k]] = x

\* the max bound is active at a call on n tokens
MaxTriggered(self, n) == self.max # None /\ n + 1 >= Val(self.max) \div 2

(* C8, as the code has it: past the trigger and with
   remaining = max - current_length, binary tokens are -inf for exactly the
   samples with dangling >= remaining - 1 and unary tokens for exactly those
   with dangling = remaining; before the trigger, and without a max, binary
   and unary tokens are 0.0. *)
C8_MaxEnforcement ==
    call.op = "call" =>
        LET self == priors[1]
            n == seq_length(call.actions)
        IN \A r \in 1 .. Len(ret) :
            LET d == call.dangling[r]
                remaining == Val(self.max) - n
            IN /\ AllAt(ret[r], binary_tokens,
                     IF MaxTriggered(self, n) /\ d >= remaining - 1
                     THEN NegInf ELSE Zero)
               /\ AllAt(ret[r], unary_tokens,
                     IF MaxTriggered(self, n) /\ d = remaining
                     THEN NegInf ELSE Zero)

(* C8 as claimed: the same with remaining = max - current_length - 1. *)
C8_AsClaimed ==
    call.op = "call" =>
        LET self == priors[1]
            n == seq_length(call.actions)
        IN \A r \in 1 .. Len(ret) :
            LET d == call.dangling[r]
                remaining == Val(self.max) - n - 1
            IN /\ AllAt(ret[r], binary_tokens,
                     IF MaxTriggered(self, n) /\ d >= remaining - 1
                     THEN NegInf ELSE Zero)
               /\ AllAt(ret[r], unary_tokens,
                     IF MaxTriggered(self, n) /\ d = remaining
                     THEN NegInf ELSE Zero)

\* past the trigger, one sample with binary and unary tokens forbidden next to
\* one with neither
C8_Witness ==
    /\ call.op = "call"
    /\ MaxTriggered(priors[1], seq_length(call.actions))
    /\ Len(ret) = 2
    /\ call.dangling[1] = Val(priors[1].max) - seq_length(call.actions)
    /\ ret[1][0] = NegInf /\ ret[1][1] = NegInf
    /\ ret[2][0] = Zero /\ ret[2][1] = Zero

(* C9: at a call on n tokens every terminal token is -inf for exactly the
   samples with dangling = 1 when n + 1 < min; once n + 1 >= min, or without
   a min, or for dangling # 1, terminals are 0.0. *)
C9_MinEnforcement ==
    call.op = "call" =>
        LET self == priors[1]
            n == seq_length(call.actions)
        IN \A r \in 1 .. Len(ret) :
            AllAt(ret[r], terminal_tokens,
                IF self.min # None /\ n + 1 < Val(self.min) /\ call.dangling[r] = 1
                THEN NegInf ELSE Zero)

\* a call below the minimum with one sample at dangling = 1 and one not
C9_Witness ==
    /\ call.op = "call"
    /\ priors[1].min # None
    /\ seq_length(call.actions) + 1 < Val(priors[1].min)
    /\ Len(ret) = 2
    /\ call.dangling[1] = 1 /\ call.dangling[2] = 2
    /\ ret[1][4] = NegInf /\ ret[2][4] = Zero

(* C10: initial_prior is -inf on exactly the terminal tokens and 0.0 on every
   other token, whatever min_ and max_ are. *)
C10_InitialPrior ==
    call.op = "initial_prior" =>
        \A c \in TokenIds :
            ret[c] = IF InTokens(c, terminal_tokens) THEN NegInf ELSE Zero

\* the initial prior of a constraint without a minimum
C10_Witness ==
    /\ call.op = "initial_prior"
    /\ priors[1].min = None
    /\ ret[4] = NegInf

----------------------------------------------------------------------------
(* State machine of a JointPrior: it is built over a list of rule instances,
   then initial_prior and __call__ are applied to batches of samples with
   the signals the sampler derives from them. *)

\* the rule instances the lists are drawn from
Catalogue == <<
    RelationalConstraint(<<5>>, <<0>>, "child"),
    RelationalConstraint(<<5>>, <<4>>, "sibling"),
    RelationalConstraint(<<4, 5>>, <<0, 1>>, "uchild"),
    TrigConstraint,
    ConstConstraint,
    NoInputsConstraint,
    InverseUnaryConstraint,
    RepeatConstraint(<<1>>, None, Some(1)),
    LengthConstraint(Some(3), Some(4)),
    UniformArityPrior,
    SoftLengthPrior(2, 1),
    SoftLengthPrior(1, -1),
    SoftLengthPrior(2, 0),
    SequencePositionsConstraint(<<"A", "C", "D">>, <<(<<1, <<"C", "D">>>>)>>, "full", 2),
    SequencePositionsConstraint(<<"A", "C", "D">>, <<(<<1, <<"C", "D">>>>)>>, "short", 0),
    LanguageModelPrior(2),
    LanguageModelPrior(-1) >>

\* the lists of at most MaxPriors instances, in the order of the catalogue
RECURSIVE PickLists(_, _)
PickLists(from, n) ==
    IF n = 0 \/ from > Len(Catalogue) THEN {<<>>}
    ELSE {<<>>} \cup
         UNION {{<<Catalogue[k]>> \o rest : rest \in PickLists(k + 1, n - 1)} :
                    k \in from .. Len(Catalogue)}

PriorLists == PickLists(1, MaxPriors)

\* the batches of b samples of t tokens, b * t <= MaxCells
Batches ==
    UNION {[1 .. b -> [1 .. t -> TokenIds]] :
               <<b, t>> \in {bt \in (1 .. MaxBatch) \X (1 .. MaxCells) :
                                 bt[1] * bt[2] <= MaxCells}}

\* the scorer of every language model of the list can take one more token
LMBounded(ps) ==
    \A k \in 1 .. Len(ps) :
        ps[k].type = "language_model" =>
            (IF ps[k].next_state = None THEN TRUE
             ELSE Val(ps[k].next_state) < MaxCells)

Init ==
    /\ call = NoCall
    /\ ret = <<>>
    /\ raised = "none"
    /\ priors \in PriorLists
    /\ config = <<>>
    /\ warnings = <<>>
    /\ events = <<>>

InitialPrior ==
    /\ call = NoCall
    /\ call' = [op |-> "initial_prior"]
    /\ ret' = JointPrior_initial_prior(priors)
    /\ raised' = "none"
    /\ UNCHANGED <<priors, config, warnings, events>>

Call ==
    \E actions \in Batches :
        LET parent == parent_of(actions)
            sibling == sibling_of(actions)
            dangling == danglings_of(actions)
            bad == FirstRaising(priors, actions, parent, sibling, dangling)
        IN /\ call = NoCall
           /\ LMBounded(priors)
           /\ call' = [op |-> "call", actions |-> actions, parent |-> parent,
                       sibling |-> sibling, dangling |-> dangling, self |-> priors]
           /\ IF bad = 0
              THEN /\ ret' = JointPrior_call(priors, actions, parent, sibling, dangling)
                   /\ raised' = "none"
                   /\ priors' = [k \in 1 .. Len(priors) |->
                                    prior_after(priors[k], actions)]
              ELSE /\ ret' = <<>>
                   /\ raised' = prior_raises(priors[bad], actions, parent,
                                             sibling, dangling)
                   /\ priors' = [k \in 1 .. Len(priors) |->
                                    IF k < bad THEN prior_after(priors[k], actions)
                                    ELSE priors[k]]
           /\ UNCHANGED <<config, warnings, events>>

Next == InitialPrior \/ Call \/ Return

Spec == Init /\ [][Next]_vars

\* the output of rule k of the called JointPrior on the call's own input
Component(k) ==
    prior_call(call.self[k], call.actions, call.parent, call.sibling, call.dangling)

\* the sum of the rules' entries at (r, c), last rule first
RECURSIVE EntrySum(_, _, _)
EntrySum(k, r, c) ==
    IF k = 0 THEN Zero ELSE Add(Component(k)[r][c], EntrySum(k - 1, r, c))

Perms(n) == {f \in [1 .. n -> 1 .. n] : \A i, j \in 1 .. n : f[i] = f[j] => i = j}

(* C2: JointPrior.__call__ returns a (batch, L) array that is the
   element-wise sum of the outputs of its rules on the same input (a rule
   that returns one row counts for every sample), and applying it to any
   reordering of the list gives the same array. *)
C2_Additivity ==
    (call.op = "call" /\ raised = "none") =>
        /\ Len(ret) = batch_size(call.actions)
        /\ \A r \in 1 .. Len(ret) :
            /\ DOMAIN ret[r] = TokenIds
            /\ \A c \in TokenIds : ret[r][c] = EntrySum(Len(call.self), r, c)
        /\ \A f \in Perms(Len(call.self)) :
            JointPrior_call([i \in 1 .. Len(call.self) |-> call.self[f[i]]],
                            call.actions, call.parent, call.sibling,
                            call.dangling) = ret

\* a call of two rules on two samples: a hard constraint that forbids a token
\* and the uniform-arity prior, whose row is broadcast
C2_Witness ==
    /\ call.op = "call" /\ raised = "none"
    /\ Len(call.self) = 2
    /\ call.self[1].type = "length" /\ call.self[2].type = "uniform_arity"
    /\ Len(ret) = 2
    /\ ret[1][4] = NegInf
    /\ ret[2][4] = Fin(-693)

(* C3: no rule contributes +inf or NaN; an entry of the JointPrior output is
   -inf exactly when the entry of at least one rule is -inf, and it is never
   +inf or NaN, at per-step calls and in the initial prior. *)
C3_NonInterference ==
    /\ (call.op = "call" /\ raised = "none") =>
          \A r \in 1 .. Len(ret), c \in TokenIds :
              /\ \A k \in 1 .. Len(call.self) :
                    Component(k)[r][c] \notin {PosInf, NaN}
              /\ ret[r][c] \notin {PosInf, NaN}
              /\ (ret[r][c] = NegInf) <=>
                    (\E k \in 1 .. Len(call.self) : Component(k)[r][c] = NegInf)
    /\ call.op = "initial_prior" =>
          \A c \in TokenIds :
              /\ \A k \in 1 .. Len(priors) :
                    prior_initial_prior(priors[k])[c] \notin {PosInf, NaN}
              /\ ret[c] \notin {PosInf, NaN}
              /\ (ret[c] = NegInf) <=>
                    (\E k \in 1 .. Len(priors) :
                        prior_initial_prior(priors[k])[c] = NegInf)

\* a token that one rule forbids and another rule biases upwards stays forbidden
C3_Witness ==
    /\ call.op = "call" /\ raised = "none"
    /\ Len(call.self) = 2
    /\ \E r \in 1 .. Len(ret), c \in TokenIds :
        /\ Component(1)[r][c] = NegInf
        /\ Component(2)[r][c].inf = 0 /\ Component(2)[r][c].v > 0
        /\ ret[r][c] = NegInf

\* the called JointPrior is the single uchild rule
UChildCalled ==
    /\ call.op = "call"
    /\ Len(call.self) = 1
    /\ call.self[1].type \in {"relational", "const"}
    /\ call.self[1].relationship = "uchild"

(* C16: a uchild rule with one or several targets returns, for every batch,
   -inf at every target for exactly the samples whose parent is an adjusted
   unary effector, or whose sibling is a target while the parent is an
   adjusted effector, and 0.0 everywhere else. *)
C16_UChild ==
    UChildCalled
        => LET self == call.self[1]
               forbidden(r) ==
                   \/ \E k \in 1 .. Len(self.effectors) :
                          /\ arities[self.effectors[k]] = 1
                          /\ call.parent[r] = parent_adjust[self.effectors[k]]
                   \/ /\ IsIn(call.sibling[r], self.targets)
                      /\ \E k \in 1 .. Len(self.effectors) :
                             call.parent[r] = parent_adjust[self.effectors[k]]
           IN /\ raised = "none"
              /\ Len(ret) = Len(call.actions)
              /\ \A r \in 1 .. Len(ret) : \A c \in TokenIds :
                    ret[r][c] = IF IsIn(c, self.targets) /\ forbidden(r)
                                THEN NegInf ELSE Zero

(* C17: InverseUnaryConstraint returns -inf at the inverse token of a
   registered (token, inverse token) pair for exactly the samples whose
   adjusted parent is the token of the pair, and 0.0 at every entry that no
   pair forbids. *)
C17_InverseUnary ==
    (call.op = "call" /\ raised = "none" /\ Len(call.self) = 1
     /\ call.self[1].type = "inverse")
        => /\ Len(ret) = Len(call.actions)
           /\ \A r \in 1 .. Len(ret) : \A c \in TokenIds :
                 ret[r][c] =
                     IF \E k \in 1 .. Len(inverse_tokens) :
                            /\ c = inverse_tokens[k][2]
                            /\ call.parent[r] = parent_adjust[inverse_tokens[k][1]]
                     THEN NegInf ELSE Zero

\* below exp, log is forbidden and exp is not; below log, exp is forbidden
C17_Witness ==
    /\ call.op = "call"
    /\ call.self = <<InverseUnaryConstraint>>
    /\ call.actions = <<(<<2>>), (<<3>>)>>
    /\ ret[1][3] = NegInf
    /\ ret[1][2] = Zero
    /\ ret[2][2] = NegInf

\* no rule of the list is a LanguageModelPrior
NoLanguageModel(ps) == \A k \in 1 .. Len(ps) : ps[k].type # "language_model"

(* C21: initial_prior() and __call__ leave the JointPrior's list and every
   rule other than a LanguageModelPrior as they were, so that the call just
   made, made again with the same arguments, returns the same array; and a
   UniformArityPrior returns at every step the offsets it returns as the
   initial prior. *)
C21_Stateless ==
    [][/\ Len(priors') = Len(priors)
       /\ \A k \in 1 .. Len(priors) :
             priors[k].type # "language_model" => priors'[k] = priors[k]
       /\ (call'.op = "call" /\ raised' = "none" /\ NoLanguageModel(priors'))
             => /\ ret' = JointPrior_call(priors', call'.actions, call'.parent,
                                          call'.sibling, call'.dangling)
                /\ \A k \in 1 .. Len(priors') :
                      priors'[k].type = "uniform_arity"
                          => \A r \in 1 .. Len(call'.actions) :
                                prior_call(priors'[k], call'.actions, call'.parent,
                                           call'.sibling, call'.dangling)[r]
                                    = prior_initial_prior(priors[k])]_vars

\* a call of UniformArityPrior next to a LengthConstraint has returned, and
\* the list is as it was before the call
C21_Witness ==
    /\ call.op = "call"
    /\ raised = "none"
    /\ Len(call.self) = 2
    /\ call.self[1].type = "length"
    /\ call.self[2].type = "uniform_arity"
    /\ priors = call.self
    /\ ret[1][4] = Fin(-693)

----------------------------------------------------------------------------
(* The factory: make_prior is called, any number of times, with the one
   configuration mapping the caller holds *)

RuleNames == {"relational", "repeat", "length", "trig", "seq_positions"}

\* the keyword arguments a configuration gives a rule, `on` apart
RuleArgs(prior_type) ==
    CASE prior_type = "relational" ->
            {[targets |-> <<"const">>, effectors |-> <<"x1">>, relationship |-> "child"]}
      [] prior_type = "repeat" ->
            {[tokens |-> <<"tanh">>, min |-> None, max |-> Some(1)]}
      [] prior_type = "length" -> {[min |-> Some(4), max |-> None]}
      [] prior_type = "trig" -> {<<>>}
      [] prior_type = "seq_positions" ->
            {[menu_file |-> "missing.yaml", mode |-> "full", biasing_factor |-> 2]}

\* one instance's arguments: `on` is true, false, or not given
Dicts(prior_type) ==
    {[on |-> o, args |-> a] : o \in {"true", "false", "absent"}, a \in RuleArgs(prior_type)}

\* the value of a rule's key as the inner loop iterates it: a list of n
\* mappings (one mapping alone is wrapped into a list of one)
Items(prior_type, n) ==
    {[name |-> prior_type, entries |-> e] : e \in [1 .. n -> Dicts(prior_type)]}

\* the configurations with at most budget instances over the given rule names
RECURSIVE ConfigsUpTo(_, _)
ConfigsUpTo(budget, rule_names) ==
    {<<>>} \cup
    UNION {{<<it>> \o rest : it \in Items(nm, n),
                             rest \in ConfigsUpTo(budget - n, rule_names \ {nm})} :
              n \in 1 .. budget, nm \in rule_names}

Configs == ConfigsUpTo(MaxEntries, RuleNames)

InitFactory ==
    /\ call = NoCall
    /\ ret = <<>>
    /\ raised = "none"
    /\ priors = <<>>
    /\ config \in Configs
    /\ warnings = <<>>
    /\ events = <<>>

\* joint_prior = make_prior(library, config): priors are the JointPrior's
\* rules, warnings the messages printed, ret the printed describe()
MakePrior ==
    LET out == make_prior(config)
    IN /\ call' = [op |-> "make_prior", config_prior |-> config]
       /\ config' = out.config
       /\ events' = out.events
       /\ raised' = out.raised
       /\ priors' = IF out.raised = "none" THEN out.priors ELSE <<>>
       /\ warnings' = IF out.raised = "none" THEN out.warnings ELSE <<>>
       /\ ret' = IF out.raised = "none" THEN describe(out.priors) ELSE <<>>

NextFactory == MakePrior \/ Return

SpecFactory == InitFactory /\ [][NextFactory]_vars

\* the instances of the configuration the running call was given, in order
CallPositions == Positions(call.config_prior, 1, 1)
RuleOf(pos) == call.config_prior[pos[1]].name
Entry(pos) == call.config_prior[pos[1]].entries[pos[2]]

Instantiated(pos) == IsIn(<<"init", pos[1], pos[2]>>, events)
Validated(pos) == IsIn(<<"validate", pos[1], pos[2]>>, events)

\* an instance that is enabled, constructs, and validates
Valid(pos) ==
    /\ Entry(pos).on = "true"
    /\ construct_raises(RuleOf(pos), Entry(pos).args) = "none"
    /\ validate(construct(RuleOf(pos), Entry(pos).args)) = None

NotValid(pos) == ~Valid(pos)

\* the reason the diagnostic of a dropped instance gives
Reason(pos) ==
    IF Entry(pos).on # "true" THEN <<"Prior disabled.">>
    ELSE IF construct_raises(RuleOf(pos), Entry(pos).args) = "TokenNotFoundError"
    THEN <<"Uses Tokens not in the Library.">>
    ELSE validate(construct(RuleOf(pos), Entry(pos).args))

\* the rules of the valid instances, in configuration order
ValidPriors ==
    LET kept == SelectSeq(CallPositions, Valid)
    IN [k \in 1 .. Len(kept) |-> construct(RuleOf(kept[k]), Entry(kept[k]).args)]

(* C4: two calls of make_prior with the same library and the same
   configuration mapping give the same rules in the same order, the same
   diagnostics and the same describe() text: whenever a call directly follows
   a call, its outcome equals the outcome of the call before. *)
C4_Deterministic ==
    [][(call.op = "make_prior" /\ call'.op = "make_prior")
          => /\ raised' = raised
             /\ priors' = priors
             /\ warnings' = warnings
             /\ ret' = ret]_vars

(* C5, as stated: in a call of make_prior that returns, an instance is
   skipped (never constructed, never validated) exactly when its `on` flag is
   given as false, and every other instance, one without an `on` flag
   included, is constructed and validated. *)
C5_AsClaimed ==
    (call.op = "make_prior" /\ raised = "none")
        => \A k \in 1 .. Len(CallPositions) :
              LET pos == CallPositions[k]
              IN IF Entry(pos).on = "false"
                 THEN ~Instantiated(pos) /\ ~Validated(pos)
                 ELSE Instantiated(pos) /\ Validated(pos)

(* C5: in a call of make_prior that returns, an instance is skipped (never
   constructed, never validated) exactly when its `on` flag is false or
   missing; an instance whose `on` flag is true is constructed, and validated
   exactly when its constructor does not raise TokenNotFoundError. *)
C5_SkipUnlessOn ==
    (call.op = "make_prior" /\ raised = "none")
        => \A k \in 1 .. Len(CallPositions) :
              LET pos == CallPositions[k]
              IN IF Entry(pos).on = "true"
                 THEN /\ Instantiated(pos)
                      /\ Validated(pos) <=>
                             construct_raises(RuleOf(pos), Entry(pos).args)
                                 # "TokenNotFoundError"
                 ELSE ~Instantiated(pos) /\ ~Validated(pos)

\* a returned call whose configuration has an instance without `on`, one
\* with on: false and one with on: true, of which only the last was built
C5_Witness ==
    /\ call.op = "make_prior"
    /\ raised = "none"
    /\ Len(CallPositions) = 3
    /\ Entry(CallPositions[1]).on = "absent"
    /\ Entry(CallPositions[2]).on = "false"
    /\ Entry(CallPositions[3]).on = "true"
    /\ events = <<(<<"init", CallPositions[3][1], CallPositions[3][2]>>),
                  (<<"validate", CallPositions[3][1], CallPositions[3][2]>>)>>

(* C6: in a call of make_prior that returns, an enabled instance that names a
   token outside the library or whose validate() returns a message is left
   out of the JointPrior, one diagnostic is recorded for it, and the build
   goes on: the JointPrior holds exactly the valid instances in configuration
   order, and the diagnostics are those of the other instances, one each, in
   configuration order. *)
C6_InvalidDropped ==
    (call.op = "make_prior" /\ raised = "none")
        => LET dropped == SelectSeq(CallPositions, NotValid)
           IN /\ priors = ValidPriors
              /\ Len(warnings) = Len(dropped)
              /\ \A k \in 1 .. Len(dropped) :
                    /\ warnings[k].cls = prior_dict(RuleOf(dropped[k]))
                    /\ warnings[k].args = Entry(dropped[k]).args
                    /\ warnings[k].reason = Reason(dropped[k])

\* an enabled rule that fails validate(), an enabled rule with an unknown
\* token, then an enabled valid rule: the last one alone is in the JointPrior
C6_Witness ==
    /\ call.op = "make_prior"
    /\ raised = "none"
    /\ Len(call.config_prior) = 3
    /\ \A i \in 1 .. 3 : call.config_prior[i].entries[1].on = "true"
    /\ call.config_prior[1].name = "relational"
    /\ call.config_prior[2].name = "repeat"
    /\ call.config_prior[3].name = "length"
    /\ priors = <<LengthConstraint(Some(4), None)>>
    /\ Len(warnings) = 2
    /\ warnings[1].reason = <<"child", "relationship cannot have terminal effectors.">>
    /\ warnings[2].reason = <<"Uses Tokens not in the Library.">>

\* an enabled seq_positions instance whose menu file does not exist
MissingMenu(pos) ==
    /\ RuleOf(pos) = "seq_positions"
    /\ Entry(pos).on = "true"
    /\ ~IsIn(Entry(pos).args.menu_file, MenuFiles)

(* C7: when the menu file of an enabled seq_positions instance is missing,
   make_prior lets no exception out and returns the JointPrior of the other
   enabled, valid instances. *)
C7_MissingMenuFile ==
    (call.op = "make_prior"
     /\ \E k \in 1 .. Len(CallPositions) : MissingMenu(CallPositions[k]))
        => raised = "none" /\ priors = ValidPriors

----------------------------------------------------------------------------
(* The sampler builds one sequence after another: it takes initial_prior(),
   chooses a token that is not forbidden, calls the JointPrior on the longer
   sequence with the signals derived from it, and so on; it may leave a
   sequence at any step and begin the next one. *)

\* the rule lists the sampler is run with
SampleRules ==
    {<<RepeatConstraint(<<1>>, None, Some(m))>> : m \in 0 .. MaxRepeat}
    \cup {<<RepeatConstraint(<<1, 2>>, None, Some(1))>>,
          <<NoInputsConstraint>>,
          <<TrigConstraint>>,
          <<InverseUnaryConstraint>>,
          <<LanguageModelPrior(2)>>,
          <<NoInputsConstraint, RepeatConstraint(<<1>>, None, Some(1))>>}

InitSample ==
    /\ call = NoCall
    /\ ret = <<>>
    /\ raised = "none"
    /\ priors \in SampleRules
    /\ config = <<>>
    /\ warnings = <<>>
    /\ events = <<>>

\* the logits the last operation gave the sample for its next token
NextLogits == IF call.op = "initial_prior" THEN ret ELSE ret[1]

\* initial_prior() at the start of a sequence
SampleStart ==
    /\ call = NoCall
    /\ call' = [op |-> "initial_prior", actions |-> <<(<<>>)>>, self |-> priors]
    /\ ret' = JointPrior_initial_prior(priors)
    /\ raised' = "none"
    /\ UNCHANGED <<priors, config, warnings, events>>

\* one generation step: a token that is not forbidden, then the JointPrior
SampleStep ==
    \E c \in TokenIds :
        LET row == Append(call.actions[1], c)
            actions == <<row>>
            parent == parent_of(actions)
            sibling == sibling_of(actions)
            dangling == danglings_of(actions)
            bad == FirstRaising(priors, actions, parent, sibling, dangling)
        IN /\ call.op \in {"initial_prior", "call"}
           /\ raised = "none"
           /\ Len(call.actions[1]) < MaxSeqLen
           /\ dangling_of(call.actions[1]) > 0
           /\ NextLogits[c] # NegInf
           /\ call' = [op |-> "call", actions |-> actions, parent |-> parent,
                       sibling |-> sibling, dangling |-> dangling, self |-> priors]
           /\ IF bad = 0
              THEN /\ ret' = JointPrior_call(priors, actions, parent, sibling, dangling)
                   /\ raised' = "none"
                   /\ priors' = [k \in 1 .. Len(priors) |->
                                    prior_after(priors[k], actions)]
              ELSE /\ ret' = <<>>
                   /\ raised' = prior_raises(priors[bad], actions, parent,
                                             sibling, dangling)
                   /\ priors' = [k \in 1 .. Len(priors) |->
                                    IF k < bad THEN prior_after(priors[k], actions)
                                    ELSE priors[k]]
           /\ UNCHANGED <<config, warnings, events>>

NextSample == SampleStart \/ SampleStep \/ Return

SpecSample == InitSample /\ [][NextSample]_vars

\* the sequence the sampler is building
Sequence == call.actions[1]
Sampling == call.op \in {"initial_prior", "call"}

(* C11: with RepeatConstraint(tokens, max_=m) as the only rule, at every
   per-step call on a sequence that holds m or more tokens of the set every
   token of the set is -inf, and no sequence the sampler builds from
   initial_prior() on holds more than m tokens of the set, for every m >= 0. *)
C11_RepeatBound ==
    (Sampling /\ Len(call.self) = 1 /\ call.self[1].type = "repeat")
        => LET self == call.self[1]
               count == CountIn(Sequence, self.tokens)
           IN /\ count <= Val(self.max)
              /\ (call.op = "call" /\ count >= Val(self.max))
                    => \A k \in 1 .. Len(self.tokens) : ret[1][self.tokens[k]] = NegInf

\* the running JointPrior has a rule of the given type
Active(type) == \E k \in 1 .. Len(call.self) : call.self[k].type = type

(* C13: with NoInputsConstraint active, every completed sequence (no open
   slot is left) that the sampler built from initial_prior() on holds at
   least one input-variable token. *)
C13_NoInputs ==
    (Sampling /\ Active("no_inputs") /\ dangling_of(Sequence) = 0)
        => CountIn(Sequence, input_tokens) > 0

\* the token at position i of the row is an ancestor of the node that
\* follows position n: the subtree it opens is not complete at any position
\* from i to n
AncestorAt(row, i, n) ==
    /\ i <= n
    /\ \A j \in i .. n : dangling_of(SubSeq(row, i, j)) > 0

(* C14: with TrigConstraint as the only rule, at every per-step call every
   trig token is -inf exactly when a trig token is among the ancestors of the
   node about to be generated, every other entry is 0.0, and no sequence the
   sampler builds holds a trig token below another trig token. *)
C14_Trig ==
    (call.op = "call" /\ raised = "none" /\ Len(call.self) = 1
     /\ call.self[1].type = "trig")
        => LET n == Len(Sequence)
               below_trig ==
                   \E i \in 1 .. n :
                       IsIn(Sequence[i], trig_tokens) /\ AncestorAt(Sequence, i, n)
           IN /\ \A c \in TokenIds :
                    ret[1][c] = IF IsIn(c, trig_tokens) /\ below_trig
                                THEN NegInf ELSE Zero
              /\ \A i, j \in 1 .. n :
                    (i < j /\ IsIn(Sequence[i], trig_tokens)
                     /\ IsIn(Sequence[j], trig_tokens))
                        => ~AncestorAt(Sequence, i, j - 1)

\* after sin(add(x1, . the open node is below sin: sin is forbidden
C14_Witness ==
    /\ call.op = "call"
    /\ call.self = <<TrigConstraint>>
    /\ Sequence = <<1, 0, 4>>
    /\ ret[1][1] = NegInf
    /\ ret[1][2] = Zero

(* C20: when the sampler calls LanguageModelPrior in generation order, over
   any number of sequences one after another, the scorer is reset exactly at
   the call on a sequence of length 1, before it is queried: at every call it
   is queried in the state of a scorer that has consumed the earlier tokens
   of the current sequence and nothing else (None at length 1, the state the
   previous call left otherwise), it is left having consumed the tokens of
   the current sequence, and the array returned is its output for the last
   action times weight. *)
C20_LanguageModel ==
    (call.op = "call" /\ Len(call.self) = 1
     /\ call.self[1].type = "language_model")
        => LET n == Len(Sequence)
               seen == IF n = 1 THEN None ELSE Some(n - 1)
               out == get_lm_prior(seen, <<Sequence[n]>>)
           IN /\ n > 1 => call.self[1].next_state = seen
              /\ priors[1].next_state = Some(n)
              /\ \A c \in TokenIds : ret[1][c] = Mul(out[1][c], call.self[1].weight)

\* the first call of a later sequence: the scorer had consumed three tokens
\* of the sequence before and is left with one
C20_Witness ==
    /\ call.op = "call"
    /\ call.self = <<[LanguageModelPrior(2) EXCEPT !.next_state = Some(3)]>>
    /\ Len(Sequence) = 1
    /\ priors[1].next_state = Some(1)

----------------------------------------------------------------------------
(* Construction: a rule class is called with keyword arguments; the instance
   it returns, if it returns one, is validated and called. *)

NameLists ==
    {<<>>, <<"const">>, <<"x1">>, <<"sin">>, <<"add", "sin">>, <<"tanh">>}

\* the keyword arguments of the constructor calls
ConstructArgs(prior_type) ==
    CASE prior_type = "repeat" ->
            {[tokens |-> t, min |-> mn, max |-> mx] :
                t \in {<<"sin">>, <<"tanh">>, <<"sin", "exp">>},
                mn \in Optional(0 .. MaxRepeat), mx \in Optional(0 .. MaxRepeat)}
      [] prior_type = "relational" ->
            {[targets |-> t, effectors |-> e, relationship |-> rel] :
                t \in NameLists, e \in NameLists,
                rel \in {"child", "descendant", "sibling", "uchild"}}

\* the batches of one sample the constructed instance is called on
SmallBatches == {<<row>> : row \in [1 .. 1 -> TokenIds] \cup [1 .. 2 -> TokenIds]}

InitConstruct ==
    /\ call = NoCall
    /\ ret = <<>>
    /\ raised = "none"
    /\ priors = <<>>
    /\ config = <<>>
    /\ warnings = <<>>
    /\ events = <<>>

\* prior = prior_class(library, **args)
Construct ==
    \E prior_type \in {"repeat", "relational"} :
        \E args \in ConstructArgs(prior_type) :
            /\ call = NoCall
            /\ call' = [op |-> "construct", prior_type |-> prior_type, args |-> args]
            /\ raised' = construct_raises(prior_type, args)
            /\ priors' = IF construct_raises(prior_type, args) = "none"
                         THEN <<construct(prior_type, args)>>
                         ELSE <<>>
            /\ ret' = <<>>
            /\ UNCHANGED <<config, warnings, events>>

\* prior.validate()
Validate ==
    /\ call = NoCall
    /\ priors # <<>>
    /\ call' = [op |-> "validate", self |-> priors[1]]
    /\ ret' = validate(priors[1])
    /\ raised' = "none"
    /\ UNCHANGED <<priors, config, warnings, events>>

\* prior(actions, parent, sibling, dangling)
CallConstructed ==
    \E actions \in SmallBatches :
        LET parent == parent_of(actions)
            sibling == sibling_of(actions)
            dangling == danglings_of(actions)
            exc == prior_raises(priors[1], actions, parent, sibling, dangling)
        IN /\ call = NoCall
           /\ priors # <<>>
           /\ call' = [op |-> "call", actions |-> actions, parent |-> parent,
                       sibling |-> sibling, dangling |-> dangling, self |-> priors]
           /\ raised' = exc
           /\ ret' = IF exc = "none"
                     THEN prior_call(priors[1], actions, parent, sibling, dangling)
                     ELSE <<>>
           /\ UNCHANGED <<priors, config, warnings, events>>

NextConstruct == Construct \/ Validate \/ CallConstructed \/ Return

SpecConstruct == InitConstruct /\ [][NextConstruct]_vars

(* C12: constructing a RepeatConstraint with min_ set, with or without max_,
   raises, and so does constructing it with neither min_ nor max_; no
   RepeatConstraint instance ever has a minimum, and no call of one ends in
   NotImplementedError. *)
C12_RepeatMinRejected ==
    /\ (call.op = "construct" /\ call.prior_type = "repeat"
        /\ (call.args.min # None \/ call.args.max = None))
          => raised # "none" /\ priors = <<>>
    /\ \A k \in 1 .. Len(priors) : priors[k].type = "repeat" => priors[k].min = None
    /\ raised # "NotImplementedError"

\* RepeatConstraint(library, ["sin"], min_=1, max_=2) was refused
C12_Witness ==
    /\ call.op = "construct"
    /\ call.prior_type = "repeat"
    /\ call.args = [tokens |-> <<"sin">>, min |-> Some(1), max |-> Some(2)]
    /\ raised = "AssertionError"
    /\ priors = <<>>

(* C15: RelationalConstraint.validate() returns a message exactly when the
   relationship is child, descendant or uchild and an effector is a terminal
   token, or there is no target, or there is no effector; in every other
   case, a sibling relationship with terminal effectors included, it returns
   None. *)
C15_Validate ==
    (call.op = "validate" /\ call.self.type = "relational")
        => LET self == call.self
               terminal_effector ==
                   \E k \in 1 .. Len(self.effectors) : arities[self.effectors[k]] = 0
               fails == \/ (self.relationship \in {"child", "descendant", "uchild"}
                            /\ terminal_effector)
                        \/ self.targets = <<>>
                        \/ self.effectors = <<>>
           IN (ret # None) <=> fails

\* a sibling relationship with a terminal effector passes validate()
C15_Witness ==
    /\ call.op = "validate"
    /\ call.self = RelationalConstraint(<<5>>, <<4>>, "sibling")
    /\ ret = None

----------------------------------------------------------------------------
(* SequencePositionsConstraint over menus, modes and biasing factors *)

\* the master sequences and allowed-mutations mappings of the menus
Menus ==
    {[master_sequence |-> m, allowed_mutations |-> a] :
        m \in {<<"A", "C", "D">>, <<"C", "A", "C">>},
        a \in {<<>>,
               <<(<<1, <<"C", "D">>>>)>>,
               <<(<<2, <<"A">>>>), (<<0, <<"C", "E">>>>)>>,
               <<(<<0, AMINO_ACIDS>>)>>}}

SeqPosRules ==
    {SequencePositionsConstraint(menu.master_sequence, menu.allowed_mutations,
                                 mode, biasing_factor) :
        menu \in Menus, mode \in {"full", "short"}, biasing_factor \in {0, 1, 3}}

InitSeqPos ==
    /\ call = NoCall
    /\ ret = <<>>
    /\ raised = "none"
    /\ priors \in {<<p>> : p \in SeqPosRules}
    /\ config = <<>>
    /\ warnings = <<>>
    /\ events = <<>>

SeqPosInitialPrior ==
    /\ call = NoCall
    /\ call' = [op |-> "initial_prior", self |-> priors]
    /\ ret' = SequencePositionsConstraint_initial_prior(priors[1])
    /\ raised' = "none"
    /\ UNCHANGED <<priors, config, warnings, events>>

SeqPosCall ==
    \E b \in 1 .. MaxBatch, t \in 1 .. MaxLen, c \in {0, 2} :
        LET actions == Filled(b, t, c)
        IN /\ call = NoCall
           /\ call' = [op |-> "call", actions |-> actions,
                       parent |-> Vector(b, empty_parent),
                       sibling |-> Vector(b, empty_sibling),
                       dangling |-> Vector(b, 1), self |-> priors]
           /\ ret' = SequencePositionsConstraint_call(priors[1], actions,
                         Vector(b, empty_parent), Vector(b, empty_sibling),
                         Vector(b, 1))
           /\ raised' = "none"
           /\ UNCHANGED <<priors, config, warnings, events>>

NextSeqPos == SeqPosInitialPrior \/ SeqPosCall \/ Return

SpecSeqPos == InitSeqPos /\ [][NextSeqPos]_vars

\* the position the operation is about, and the rows it returned
SeqPosition == IF call.op = "initial_prior" THEN 0 ELSE Len(call.actions[1])
SeqRows == IF call.op = "initial_prior" THEN <<ret>> ELSE ret

\* what the rule is to give a symbol at absolute position p of the master
\* sequence: -inf when the position excludes it, the bias on the master
\* symbol, 0.0 otherwise
ExpectedAt(self, p) ==
    [c \in TokenIds |->
        LET symbol == AMINO_ACIDS[c + 1]
            entries == {k \in 1 .. Len(self.allowed_mutations) :
                            self.allowed_mutations[k][1] = p}
            excluded ==
                IF entries = {} THEN symbol # self.master_sequence[p + 1]
                ELSE \A k \in entries :
                         \A n \in 1 .. Len(self.allowed_mutations[k][2]) :
                             self.allowed_mutations[k][2][n] # symbol
        IN IF excluded THEN NegInf
           ELSE IF self.biasing_factor > 0 /\ symbol = self.master_sequence[p + 1]
           THEN Fin(Log1000(self.biasing_factor))
           ELSE Zero]

(* C18: in full mode, at a position i inside the master sequence
   (initial_prior for i = 0, a per-step call for i = number of tokens) a
   position without an entry admits the master symbol only, a position with
   an entry admits exactly its subset, the master symbol carries
   log(biasing_factor) when biasing_factor > 0 and it is admitted, and every
   other entry is 0.0; at or beyond the end of the master sequence the
   output is all zeros. *)
C18_FullMode ==
    (call.op \in {"initial_prior", "call"} /\ call.self[1].mode = "full")
        => \A r \in 1 .. Len(SeqRows) :
              SeqRows[r] = IF SeqPosition < Len(call.self[1].master_sequence)
                           THEN ExpectedAt(call.self[1], SeqPosition)
                           ELSE zeros_row

\* position 2 of C, A, C is constrained to A: the master symbol C is excluded
\* and carries no bias, A is admitted
C18_Witness ==
    /\ call.op = "call"
    /\ call.self[1].mode = "full"
    /\ call.self[1].biasing_factor = 3
    /\ call.self[1].master_sequence = <<"C", "A", "C">>
    /\ Len(call.self[1].allowed_mutations) = 2
    /\ Len(call.actions) = 2
    /\ SeqPosition = 2
    /\ ret[2][1] = NegInf
    /\ ret[2][0] = Zero

(* C19: in short mode, step k (initial_prior for k = 0, a per-step call for
   k = number of tokens) stands for the k-th entry of the allowed-mutations
   mapping, at absolute position p_k, and gives what full mode gives at p_k:
   the symbols outside the allowed set of p_k are -inf and the bias is on the
   master symbol at p_k. *)
C19_ShortMode ==
    (call.op \in {"initial_prior", "call"} /\ call.self[1].mode = "short"
     /\ SeqPosition < Len(call.self[1].allowed_mutations))
        => \A r \in 1 .. Len(SeqRows) :
              SeqRows[r] =
                  ExpectedAt(call.self[1],
                             call.self[1].allowed_mutations[SeqPosition + 1][1])

----------------------------------------------------------------------------
(* The sampler under a LengthConstraint, over libraries with and without
   unary tokens.  A library is a set of the model's tokens; the columns of
   the other tokens do not exist for it: they are never chosen and never
   looked at. *)

Libraries == {{0, 1, 4}, {0, 4}}

\* LengthConstraint(library, min_, max_): the instance keeps its library
LengthSampleRules ==
    {p \in {[type |-> "length", min |-> mn, max |-> mx, library |-> lib] :
                lib \in Libraries,
                mn \in Optional(1 .. MaxMin),
                mx \in Optional(1 .. MaxMax)} :
        IF p.min = None THEN p.max # None ELSE TRUE}

InitLengthSample ==
    /\ call = NoCall
    /\ ret = <<>>
    /\ raised = "none"
    /\ priors \in {<<p>> : p \in LengthSampleRules}
    /\ config = <<>>
    /\ warnings = <<>>
    /\ events = <<>>

\* initial_prior() at the start of the sequence
LengthSampleStart ==
    /\ call = NoCall
    /\ call' = [op |-> "initial_prior", actions |-> <<(<<>>)>>, self |-> priors]
    /\ ret' = JointPrior_initial_prior(priors)
    /\ raised' = "none"
    /\ UNCHANGED <<priors, config, warnings, events>>

\* one generation step: a token of the library that is not forbidden, then
\* the JointPrior on the longer sequence
LengthSampleStep ==
    \E c \in priors[1].library :
        LET actions == <<Append(call.actions[1], c)>>
            parent == parent_of(actions)
            sibling == sibling_of(actions)
            dangling == danglings_of(actions)
        IN /\ call.op \in {"initial_prior", "call"}
           /\ Len(call.actions[1]) < MaxMax
           /\ dangling_of(call.actions[1]) > 0
           /\ NextLogits[c] # NegInf
           /\ call' = [op |-> "call", actions |-> actions, parent |-> parent,
                       sibling |-> sibling, dangling |-> dangling, self |-> priors]
           /\ ret' = JointPrior_call(priors, actions, parent, sibling, dangling)
           /\ raised' = "none"
           /\ UNCHANGED <<priors, config, warnings, events>>

NextLengthSample == LengthSampleStart \/ LengthSampleStep

SpecLengthSample == InitLengthSample /\ [][NextLengthSample]_vars

(* C22: under LengthConstraint(max_=M) the tokens chosen plus the open slots
   never exceed M in a sequence built from initial_prior() on by choosing
   tokens that are not forbidden, for every M >= 1. *)
C22_HardStop ==
    (Sampling /\ call.self[1].max # None)
        => Len(Sequence) + dangling_of(Sequence) <= Val(call.self[1].max)

(* C23: under LengthConstraint(min_=m) every complete sequence (no open slot
   left) built from initial_prior() on by choosing tokens that are not
   forbidden has at least m tokens, for every m >= 1. *)
C23_LowerBound ==
    (Sampling /\ call.self[1].min # None /\ dangling_of(Sequence) = 0)
        => Len(Sequence) >= Val(call.self[1].min)

\* add(x1, x1) was completed under min_ = 3: after add, x1 the terminals
\* were still allowed, since the sequence had two open slots
C23_Witness ==
    /\ call.op = "call"
    /\ call.self[1].min = Some(3)
    /\ call.self[1].max = None
    /\ Sequence = <<0, 4, 4>>

\* some token of the library is not forbidden
CanContinue == \E c \in call.self[1].library : NextLogits[c] # NegInf

(* C24, as stated: with min_ <= max_ both configured and a library of
   terminal and binary tokens, with or without unary tokens, every unfinished
   sequence the sampler reaches has a token that is not forbidden. *)
C24_AsClaimed ==
    (Sampling /\ call.self[1].min # None /\ call.self[1].max # None
     /\ Val(call.self[1].min) <= Val(call.self[1].max)
     /\ dangling_of(Sequence) > 0)
        => CanContinue

(* C24: with min_ <= max_ both configured, every unfinished sequence the
   sampler reaches has a token that is not forbidden, except when the library
   has no unary token and min_ = max_ is an even number from 4 on (no
   expression of terminal and binary tokens has an even length). *)
C24_NoDeadEnd ==
    (Sampling /\ call.self[1].min # None /\ call.self[1].max # None
     /\ Val(call.self[1].min) <= Val(call.self[1].max)
     /\ dangling_of(Sequence) > 0
     /\ ~ (/\ call.self[1].library \cap Range(unary_tokens) = {}
           /\ Val(call.self[1].min) = Val(call.self[1].max)
           /\ Val(call.self[1].max) % 2 = 0
           /\ Val(call.self[1].max) >= 4))
        => CanContinue

\* min_ = max_ = 4 with unary tokens: after add, x1 only the unary token is
\* left, and it is allowed
C24_Witness ==
    /\ call.op = "call"
    /\ call.self[1].min = Some(4)
    /\ call.self[1].max = Some(4)
    /\ call.self[1].library = {0, 1, 4}
    /\ Sequence = <<0, 4>>
    /\ ret[1][0] = NegInf
    /\ ret[1][4] = NegInf
    /\ ret[1][1] = Zero

----------------------------------------------------------------------------
(* checkConstraint (dsr/gp/symbolic_math.py): the decorator around the mate
   and mutate operators.  An individual is what the wrapper looks at:
   len(ind), ind.height and the verdict of joint_prior_violation on it.  An
   object is an individual with its identity: an argument of the call, a
   fresh object made by the operator, or a copy made by the wrapper. *)

Individuals ==
    [len : 1 .. MaxIndLen, height : 1 .. MaxHeight, violation : BOOLEAN]

joint_prior_violation(ind) == ind.violation

\* the arguments the decorator closes over
checkConstraint(max_length, min_length, max_depth) ==
    [max_length |-> max_length, min_length |-> min_length,
     max_depth |-> max_depth]

Decorators ==
    {checkConstraint(mx, mn, d) :
        mx \in 2 .. MaxIndLen, mn \in 1 .. 2, d \in 1 .. MaxHeight}

\* a plausible slip: the arguments are kept without copy.deepcopy, so the kept
\* individuals are the objects the operator changes
keep_inds_shared(args, mutated) ==
    [k \in 1 .. Len(args) |-> [obj |-> <<"copy", k>>, ind |-> mutated[k]]]

\* keep_inds = [copy.deepcopy(ind) for ind in args], made before the operator
\* is called: the copies hold the values at entry, whatever the operator does
\* to its arguments (mutated) afterwards
keep_inds(args, mutated) ==
    [k \in 1 .. Len(args) |-> [obj |-> <<"copy", k>>, ind |-> args[k]]]

\* new_inds = list(func(*args, **kwargs)): the operator either changes its
\* arguments in place and returns them, or returns fresh objects
new_inds(inplace, outs) ==
    [j \in 1 .. Len(outs) |->
        [obj |-> IF inplace THEN <<"arg", j>> ELSE <<"new", j>>, ind |-> outs[j]]]

\* the if / elif chain of one output: TRUE when joint_prior_violation is
\* reached
reaches_prior(dec, ind) ==
    IF ind.len > dec.max_length THEN FALSE
    ELSE IF ind.len < dec.min_length THEN FALSE
    ELSE IF ind.height > dec.max_depth THEN FALSE
    ELSE TRUE

\* TRUE when new_inds[i] is replaced by random.choice(keep_inds)
replaced(dec, ind) ==
    IF reaches_prior(dec, ind) THEN joint_prior_violation(ind) ELSE TRUE

\* the loop of the wrapper; choice[i] is the draw of random.choice at index i
\* (read only where the output is replaced)
wrapper(dec, keep, new, choice) ==
    [i \in 1 .. Len(new) |->
        IF replaced(dec, new[i].ind) THEN keep[choice[i]] ELSE new[i]]

\* the outputs joint_prior_violation was called on, in order
evaluated(dec, new) ==
    SelectSeq([i \in 1 .. Len(new) |-> i],
              LAMBDA i : reaches_prior(dec, new[i].ind))

InitGP ==
    /\ call = NoCall
    /\ ret = <<>>
    /\ raised = "none"
    /\ priors = <<>>
    /\ config \in Decorators
    /\ warnings = <<>>
    /\ events = <<>>

\* one call of the wrapped operator on one or two individuals
Wrapper ==
    /\ call = NoCall
    /\ \E n \in 1 .. MaxInds, m \in 1 .. MaxInds, inplace \in BOOLEAN :
      \E args \in [1 .. n -> Individuals], outs \in [1 .. m -> Individuals],
         choice \in [1 .. m -> 1 .. n] :
        LET mutated == IF inplace THEN outs ELSE args
            keep == keep_inds(args, mutated)
            new == new_inds(inplace, outs)
        IN /\ IF inplace THEN m = n ELSE TRUE
           /\ \A i \in 1 .. m : replaced(config, outs[i]) \/ choice[i] = 1
           /\ call' = [op |-> "wrapper", args |-> args, mutated |-> mutated,
                       new_inds |-> new, evaluated |-> evaluated(config, new)]
           /\ ret' = wrapper(config, keep, new, choice)
           /\ raised' = "none"
           /\ UNCHANGED <<priors, config, warnings, events>>

NextGP == Wrapper \/ Return

SpecGP == InitGP /\ [][NextGP]_vars

(* C25: the wrapper returns as many individuals as the operator produced;
   each of them is either the operator's own output at that index, with
   min_length <= len <= max_length, height <= max_depth and no joint prior
   violation, or a copy of an argument holding the value the argument had
   before the operator ran; and joint_prior_violation is called only on
   outputs that passed the length and depth checks. *)
C25_CheckConstraint ==
    call.op = "wrapper" =>
        /\ Len(ret) = Len(call.new_inds)
        /\ \A i \in 1 .. Len(ret) :
              \/ /\ ret[i] = call.new_inds[i]
                 /\ ret[i].ind.len >= config.min_length
                 /\ ret[i].ind.len <= config.max_length
                 /\ ret[i].ind.height <= config.max_depth
                 /\ ~ ret[i].ind.violation
              \/ \E k \in 1 .. Len(call.args) :
                    ret[i] = [obj |-> <<"copy", k>>, ind |-> call.args[k]]
        /\ \A j \in 1 .. Len(call.evaluated) :
              /\ call.new_inds[call.evaluated[j]].ind.len >= config.min_length
              /\ call.new_inds[call.evaluated[j]].ind.len <= config.max_length
              /\ call.new_inds[call.evaluated[j]].ind.height <= config.max_depth

\* a mate that changed both arguments in place: the first child is kept, the
\* second is too long and is replaced by the copy of the first argument,
\* which no longer equals that argument
C25_Witness ==
    /\ call.op = "wrapper"
    /\ Len(ret) = 2
    /\ call.new_inds[1].obj = <<"arg", 1>>
    /\ ret[1] = call.new_inds[1]
    /\ ret[2].obj = <<"copy", 1>>
    /\ call.new_inds[2].ind.len > config.max_length
    /\ call.mutated[1] # call.args[1]
    /\ call.evaluated = <<1>>

====
